---- MODULE Spec2Model ----
(***************************************************************************)
(* The analysis graph of agentic_data_analysis: the analyzer node (field   *)
(* profiling, one description call per field, one summary call), the       *)
(* metadata reducer, and the question_generator node with its tool-calling *)
(* loop.  Language-model and tool invocations are the environment: every   *)
(* answer they can give is a nondeterministic choice.                      *)
(***************************************************************************)
EXTENDS Integers, Sequences, FiniteSets, TLC

\* ------------------------------------------------------------------ bounds
\* Rows of a dataset handed to a whole graph run.
MaxRows == 2
\* Rows of the single column handed to the profiler alone.
MaxColumnLen == 6
\* Rows of a single column that mixes numbers with non-numeric strings.
MaxMixedLen == 3
\* Tool-calling responses the model gives in one questionGenerator call.
MaxRounds == 2
\* Tool calls in one model response.
MaxToolCalls == 2

\* --------------------------------------------------------------- JS values
\* A JavaScript value: its typeof tag, its numeric value, its text.
Num(i) == [t |-> "number", n |-> i, s |-> ""]
Str(x) == [t |-> "string", n |-> 0, s |-> x]
NaN == [t |-> "number", n |-> 0, s |-> "NaN"]
Undefined == [t |-> "undefined", n |-> 0, s |-> ""]
\* The key is not a property of the row object; reading it gives undefined.
Absent == [t |-> "absent", n |-> 0, s |-> ""]

NumVals == {Num(-1), Num(2)}
StrVals == {Str("x"), Str("2")}
DefinedVals == NumVals \cup StrVals
\* The numbers a numeric string of the model can denote, and their texts.
NumRange == -2 .. 2
NumericText == [i \in NumRange |-> ToString(i)]

IsNaN(v) == v.t = "number" /\ v.s = "NaN"
IsNumber(v) == v.t = "number" /\ v.s = ""

\* item[field]: an absent key reads as undefined.
Read(row, f) == IF row[f].t = "absent" THEN Undefined ELSE row[f]

\* String(v)
String(v) ==
    CASE v.t = "string" -> v.s
      [] IsNaN(v) -> "NaN"
      [] v.t = "number" -> ToString(v.n)
      [] OTHER -> "undefined"

\* ToNumber(v), the coercion Math.min, Math.max and the subtraction a - b apply.
ToNumber(v) ==
    CASE v.t = "number" -> v
      [] v.t = "string" ->
           IF \E i \in NumRange : NumericText[i] = v.s
           THEN Num(CHOOSE i \in NumRange : NumericText[i] = v.s)
           ELSE NaN
      [] OTHER -> NaN

\* ------------------------------------------------------------ sequences
Take(seq, k) == SubSeq(seq, 1, IF Len(seq) < k THEN Len(seq) ELSE k)

\* The orderings of a set, as sequences without repetition.
Orderings(S) ==
    {q \in [1 .. Cardinality(S) -> S] : \A i, j \in DOMAIN q : i # j => q[i] # q[j]}

\* ---------------------------------------------------------- field profiling
\* FieldValues that keeps every row that has the key, undefined or not.
FieldValues_hasKey(rows, f) ==
    SelectSeq([i \in 1 .. Len(rows) |-> rows[i][f]], LAMBDA v : v.t # "absent")

\* globalState.data.map(item => item[field]).filter(x => x !== undefined)
FieldValues(rows, f) ==
    SelectSeq([i \in 1 .. Len(rows) |-> Read(rows[i], f)], LAMBDA v : v.t # "undefined")

\* typeof values[0], or 'unknown' for a field with no defined value.
TypeOf(values) == IF Len(values) > 0 THEN values[1].t ELSE "unknown"

\* What the comparator (a, b) => a - b tells sort about a and b: a NaN
\* difference counts as 0.
Compare(a, b) ==
    IF IsNaN(ToNumber(a)) \/ IsNaN(ToNumber(b)) THEN 0
    ELSE ToNumber(a).n - ToNumber(b).n

\* The comparator orders the values consistently: Array.prototype.sort then
\* gives the one stable ascending order; otherwise the order is left to the
\* implementation.
ConsistentCompare(values) ==
    \A i, j, k \in DOMAIN values :
        (Compare(values[i], values[j]) = 0 /\ Compare(values[j], values[k]) = 0)
            => Compare(values[i], values[k]) = 0

\* sorted with v put behind every element that does not compare greater.
RECURSIVE InsertSorted(_, _)
InsertSorted(sorted, v) ==
    IF sorted = <<>> THEN <<v>>
    ELSE IF Compare(sorted[Len(sorted)], v) <= 0 THEN Append(sorted, v)
    ELSE Append(InsertSorted(SubSeq(sorted, 1, Len(sorted) - 1), v), sorted[Len(sorted)])

RECURSIVE StableSort(_)
StableSort(values) ==
    IF values = <<>> THEN <<>>
    ELSE InsertSorted(StableSort(SubSeq(values, 1, Len(values) - 1)), values[Len(values)])

\* numbers.sort((a, b) => a - b): every array the sort can leave.
SortOutcomes(values) ==
    IF ConsistentCompare(values) THEN {StableSort(values)}
    ELSE {[i \in DOMAIN values |-> values[p[i]]] : p \in Orderings(DOMAIN values)}

\* AtPosition with Math.ceil in place of Math.floor.
AtPosition_ceil(i, len) == \E k \in 0 .. 4 : i = (k * (len - 1) + 3) \div 4

\* positions.some(p => i === Math.floor(p * (arr.length - 1))), i from 0,
\* for positions 0, 0.25, 0.5, 0.75, 1.
AtPosition(i, len) == \E k \in 0 .. 4 : i = (k * (len - 1)) \div 4

\* arr.filter((_, i, arr) => AtPosition(i, arr.length))
RECURSIVE PositionFilter(_, _)
PositionFilter(arr, upto) ==
    IF upto = 0 THEN <<>>
    ELSE PositionFilter(arr, upto - 1)
            \o (IF AtPosition(upto - 1, Len(arr)) THEN <<arr[upto]>> ELSE <<>>)

\* MathMin that takes the first value, as if the values were already sorted.
MathMin_firstValue(values) == ToNumber(values[1])

\* Math.min(...numbers), Math.max(...numbers): NaN as soon as one argument
\* converts to NaN.
MathMin(values) ==
    IF \E i \in DOMAIN values : IsNaN(ToNumber(values[i])) THEN NaN
    ELSE Num(CHOOSE m \in {ToNumber(values[i]).n : i \in DOMAIN values} :
                \A i \in DOMAIN values : m <= ToNumber(values[i]).n)

MathMax(values) ==
    IF \E i \in DOMAIN values : IsNaN(ToNumber(values[i])) THEN NaN
    ELSE Num(CHOOSE m \in {ToNumber(values[i]).n : i \in DOMAIN values} :
                \A i \in DOMAIN values : m >= ToNumber(values[i]).n)

\* ValueMap that never finds the key again: one entry per value.
ValueMap_noMerge(values) ==
    [i \in DOMAIN values |-> [value |-> String(values[i]), count |-> 1]]

\* valueMap after values.forEach(v => valueMap.set(String(v), count + 1)):
\* the entries in insertion order.
RECURSIVE ValueMap(_)
ValueMap(values) ==
    IF values = <<>> THEN <<>>
    ELSE LET before == ValueMap(SubSeq(values, 1, Len(values) - 1))
             strVal == String(values[Len(values)])
         IN  IF \E i \in DOMAIN before : before[i].value = strVal
             THEN [i \in DOMAIN before |->
                      IF before[i].value = strVal
                      THEN [before[i] EXCEPT !.count = @ + 1]
                      ELSE before[i]]
             ELSE Append(before, [value |-> strVal, count |-> 1])

NoUniqueValues == [defined |-> FALSE, items |-> <<>>]

\* inspectField(field), given the array the sort of a numeric field leaves.
\* The mean and the standard deviation it also computes reach no output of
\* dataAnalyzer and are left out.
inspectField(rows, field, sorted) ==
    LET values == FieldValues(rows, field)
        type == TypeOf(values)
    IN  IF type = "number"
        THEN [type |-> type,
              samples |-> PositionFilter(sorted, Len(sorted)),
              uniqueValues |-> NoUniqueValues,
              totalValues |-> Len(values),
              missingValues |-> Len(rows) - Len(values),
              stats |-> [hasMin |-> TRUE, min |-> MathMin(values), max |-> MathMax(values)]]
        ELSE [type |-> type,
              samples |-> Take(values, 5),
              uniqueValues |-> [defined |-> TRUE, items |-> ValueMap(values)],
              totalValues |-> Len(values),
              missingValues |-> Len(rows) - Len(values),
              stats |-> [hasMin |-> FALSE, min |-> Undefined, max |-> Undefined]]

\* analysis.uniqueValues?.map(v => v.value)
UniqueValueNames(uniqueValues) ==
    IF uniqueValues.defined
    THEN [defined |-> TRUE,
          items |-> [i \in DOMAIN uniqueValues.items |-> uniqueValues.items[i].value]]
    ELSE NoUniqueValues

\* metadataFields[field] as the first pass of dataAnalyzer builds it.
FieldMetadataOf(analysis) ==
    [type |-> analysis.type,
     description |-> "",
     missingCount |-> analysis.missingValues,
     totalCount |-> analysis.totalValues,
     range |-> [hasMin |-> analysis.stats.hasMin,
                min |-> analysis.stats.min,
                max |-> analysis.stats.max,
                uniqueValues |-> UniqueValueNames(analysis.uniqueValues)],
     examples |-> analysis.samples]

\* Every metadata entry the first pass can build for one field.
FieldOutcomes(rows, field) ==
    LET values == FieldValues(rows, field)
    IN  IF TypeOf(values) = "number"
        THEN {FieldMetadataOf(inspectField(rows, field, s)) : s \in SortOutcomes(values)}
        ELSE {FieldMetadataOf(inspectField(rows, field, values))}

\* Every metadataFields the first pass can build, as entries in the order of
\* dataFields.
RECURSIVE FirstPassOutcomes(_, _)
FirstPassOutcomes(rows, dataFields) ==
    IF dataFields = <<>> THEN {<<>>}
    ELSE LET field == dataFields[Len(dataFields)]
         IN  {Append(before, [name |-> field, meta |-> m]) :
                 before \in FirstPassOutcomes(rows, SubSeq(dataFields, 1, Len(dataFields) - 1)),
                 m \in FieldOutcomes(rows, field)}

\* ------------------------------------------------------------- metadata
Some(items) == [defined |-> TRUE, items |-> items]
None == [defined |-> FALSE, items |-> <<>>]

\* A DatasetMetadata object; fields holds Object.entries(fields) in order.
MD(fields, rowCount, summary, dataQualityIssues, questions) ==
    [present |-> TRUE, fields |-> fields, rowCount |-> rowCount, summary |-> summary,
     dataQualityIssues |-> dataQualityIssues, questions |-> questions]

\* state.metadata is undefined; also: no update is waiting for the reducer.
NoMetadata ==
    [present |-> FALSE, fields |-> <<>>, rowCount |-> 0, summary |-> "",
     dataQualityIssues |-> None, questions |-> None]

\* The default of the metadata channel.
DefaultMetadata == MD(<<>>, 0, "", Some(<<>>), None)

\* The 19 keys VisualizationQuestionSchema's type admits, which are the keys
\* of the graph catalog.
GraphKeys ==
    {"histogram", "density-plot", "boxplot", "violin-plot", "lollipop-plot", "barplot",
     "scatterplot", "connected-scatterplot", "area-plot", "stacked-area", "streamgraph",
     "heatmap", "treemap", "venn-diagram", "grouped-scatter", "network", "dendrogram",
     "hierarchical-edge-bundling", "line-chart"}

\* z.number(): a number that is not NaN.
ZNumber(v) == v.t = "number" /\ ~IsNaN(v)
ZOptionalNumber(v) == v.t = "undefined" \/ ZNumber(v)

\* FieldMetadataSchema; the counts, strings and arrays of the model are
\* numbers, strings and arrays by construction.
FieldMetadataSchema(meta) ==
    /\ ZOptionalNumber(meta.range.min)
    /\ ZOptionalNumber(meta.range.max)

\* VisualizationQuestionSchema without its id.
QuestionSchema(q) == q.type \in GraphKeys /\ q.complete

\* DatasetMetadataSchema.parse(update) does not throw.
DatasetMetadataSchema(md) ==
    /\ md.present
    /\ \A i \in DOMAIN md.fields : FieldMetadataSchema(md.fields[i].meta)
    /\ \A i \in DOMAIN md.questions.items :
          md.questions.items[i].id # "" /\ QuestionSchema(md.questions.items[i])

\* ---------------------------------------------------------------- state
Fields == {"a", "b"}

VARIABLES
    entry,            \* what is run: the graph, one node alone, the profiler alone
    data,             \* state.data, the rows
    keys0,            \* Object.keys(state.data[0] || {}), in order
    pc,               \* the graph's position
    metadata,         \* state.metadata
    analyzerRuns,     \* calls of dataAnalyzer
    qgRuns,           \* calls of questionGenerator
    update,           \* the metadata of the update a node returned, until the reducer takes it
    updateData,       \* the data of that update: the rows returned, or none
    aPc,              \* dataAnalyzer's position
    metadataFields,   \* dataAnalyzer's metadataFields, as entries in order
    descriptions,     \* generateFieldDescriptions' descriptions, in order
    aLog,             \* the model calls dataAnalyzer made, in order
    qPc,              \* questionGenerator's position
    llmResponse,      \* questionGenerator's llmResponse
    currentMessages,  \* questionGenerator's currentMessages
    toolState,        \* the callTool promises of the round: pending or done
    qModelCalls,      \* model invocations of this questionGenerator call
    toolExecs,        \* tool.invoke calls of this questionGenerator call
    rounds,           \* completed passes of the while loop's body
    history,          \* the model's responses to this call, in order
    settled           \* the tool calls of the latest round, in the order their promises resolved

aVars == <<aPc, metadataFields, descriptions, aLog>>
qVars == <<qPc, llmResponse, currentMessages, toolState, qModelCalls, toolExecs,
           rounds, history, settled>>
inputVars == <<entry, data, keys0>>
vars == <<entry, data, keys0, pc, metadata, analyzerRuns, qgRuns, update, updateData,
          aVars, qVars>>

\* The datasets of at most maxLen rows: a cell of the first row is one of
\* first, a cell of a later row one of later.
RowsOver(first, later, maxLen) ==
    {<<>>} \cup
    UNION {{<<r1>> \o rest : r1 \in [Fields -> first], rest \in [1 .. n -> [Fields -> later]]} :
              n \in 0 .. (maxLen - 1)}

\* The dataset whose only column, "a", is col; an undefined cell of a later
\* row is a missing key.
ColumnRows(col) ==
    [i \in DOMAIN col |->
        [f \in Fields |-> IF f = "a" /\ (i = 1 \/ col[i] # Undefined) THEN col[i] ELSE Absent]]

PresentKeys(rows) ==
    IF rows = <<>> THEN {} ELSE {f \in Fields : rows[1][f].t # "absent"}

\* ------------------------------------------------- model responses, tools
\* The text of a model response: whether it is wrapped in a markdown code
\* block, whether what is inside is JSON, and the questions the JSON lists.
Content(fenced, json, questions) ==
    [fenced |-> fenced, json |-> json, questions |-> questions]
NoContent == Content(FALSE, FALSE, <<>>)

Question(type, complete) == [id |-> "", type |-> type, complete |-> complete]

\* The question lists a final answer can hold: valid ones, one with a type
\* outside the catalog, one that lacks a required property.
QuestionLists ==
    {<<>>,
     <<Question("histogram", TRUE)>>,
     <<Question("histogram", TRUE), Question("barplot", TRUE)>>,
     <<Question("histogram", TRUE), Question("pie", TRUE)>>,
     <<Question("boxplot", FALSE)>>}

FinalContents ==
    {Content(f, TRUE, q) : f \in BOOLEAN, q \in QuestionLists}
        \cup {Content(f, FALSE, <<>>) : f \in BOOLEAN}

CallId(i) == "call_" \o ToString(i)
ToolCall(name, id, argsOk) == [name |-> name, id |-> id, argsOk |-> argsOk]

\* The tool calls a response can hold at position i: the two declared tools,
\* suggestGraphs with arguments its schema rejects, an undeclared tool, and a
\* call without an id.
ToolCallsAt(i) ==
    {ToolCall("getGraphCatalog", CallId(i), TRUE),
     ToolCall("suggestGraphs", CallId(i), TRUE),
     ToolCall("suggestGraphs", CallId(i), FALSE),
     ToolCall("drawChart", CallId(i), TRUE),
     ToolCall("getGraphCatalog", "", TRUE)}

ToolCallLists ==
    UNION {{c \in [1 .. n -> UNION {ToolCallsAt(i) : i \in 1 .. n}] :
               \A i \in 1 .. n : c[i] \in ToolCallsAt(i)} : n \in 1 .. MaxToolCalls}

Response(tool_calls, content) == [tool_calls |-> tool_calls, content |-> content]
NoResponse == Response(<<>>, NoContent)

\* Every answer the model can give.
Responses ==
    {Response(c, NoContent) : c \in ToolCallLists}
        \cup {Response(<<>>, c) : c \in FinalContents}

\* The answers the model gives within a graph run: a call of a declared tool,
\* a call of an undeclared one, and final answers that parse, that hold a
\* question of a type the schema rejects, that hold a question without a
\* required property, and that are no JSON.
GraphResponses ==
    {Response(<<ToolCall("getGraphCatalog", CallId(1), TRUE)>>, NoContent),
     Response(<<ToolCall("drawChart", CallId(1), TRUE)>>, NoContent),
     Response(<<>>, Content(TRUE, TRUE, <<Question("histogram", TRUE)>>)),
     Response(<<>>, Content(FALSE, TRUE, <<Question("histogram", TRUE), Question("pie", TRUE)>>)),
     Response(<<>>, Content(FALSE, TRUE, <<Question("boxplot", FALSE)>>)),
     Response(<<>>, Content(FALSE, FALSE, <<>>))}

\* The keys of graphCatalog.
graphCatalog ==
    {"histogram", "density-plot", "boxplot", "violin-plot", "lollipop-plot", "barplot",
     "scatterplot", "connected-scatterplot", "area-plot", "stacked-area", "streamgraph",
     "heatmap", "treemap", "venn-diagram", "grouped-scatter", "network", "dendrogram",
     "hierarchical-edge-bundling", "line-chart"}

\* visualizationTools, by name.
visualizationTools == {"getGraphCatalog", "suggestGraphs"}

Message(type, tool_calls, content, tool_call_id, name) ==
    [type |-> type, tool_calls |-> tool_calls, content |-> content,
     tool_call_id |-> tool_call_id, name |-> name]
SystemMessage == Message("system", <<>>, NoContent, "", "")
HumanMessage == Message("human", <<>>, NoContent, "", "")
AIMessage(response) == Message("ai", response.tool_calls, response.content, "", "")
ToolMessage(toolCall) == Message("tool", <<>>, NoContent, toolCall.id, toolCall.name)

\* ToolCallAccepted without the check of the id.
ToolCallAccepted_noIdCheck(toolCall) == toolCall.name \in visualizationTools

\* callTool(toolCall) up to tool.invoke: the tool is looked up by name and
\* the call must carry an id.
ToolCallAccepted(toolCall) ==
    toolCall.name \in visualizationTools /\ toolCall.id # ""

\* callTool(toolCall) resolves with a ToolMessage; otherwise it rejects: the
\* lookup or the id check throws, or the tool's schema rejects the arguments.
callTool(toolCall) ==
    IF ToolCallAccepted(toolCall) /\ toolCall.argsOk THEN "resolved" ELSE "rejected"

\* HasToolCalls that needs more than one tool call.
HasToolCalls_moreThanOne(response) == Len(response.tool_calls) > 1

\* HasToolCalls that tests the tool_calls array, which a response always
\* has, and not its length: the loop never breaks.
HasToolCalls_always(response) == TRUE

\* !llmResponse.tool_calls?.length is false: the loop goes on.
HasToolCalls(response) == Len(response.tool_calls) > 0

\* addMessages that takes the tool results in the order in which the
\* callTool promises resolved.
addMessages_asResolved(messages, response) ==
    messages \o <<AIMessage(response)>>
        \o [k \in DOMAIN settled |-> ToolMessage(response.tool_calls[settled[k]])]

\* addMessages(currentMessages, [llmResponse, ...toolResults]): toolResults
\* is what Promise.all resolves with, the results in the order of the calls.
addMessages(messages, response) ==
    messages \o <<AIMessage(response)>>
        \o [i \in DOMAIN response.tool_calls |-> ToolMessage(response.tool_calls[i])]

\* stripMarkdownCodeBlock(content)
stripMarkdownCodeBlock(content) == [content EXCEPT !.fenced = FALSE]

\* OutputParses that drops nothing: any JSON parses.
OutputParses_anyJson(content) == content.json

\* outputParser.parse(content) returns: the text is JSON and every question
\* satisfies the schema.
OutputParses(content) ==
    content.json /\ \A i \in DOMAIN content.questions : QuestionSchema(content.questions[i])

\* parsedOutput.questions.map(q => ({id: uuidv4(), ...q}))
WithIds(questions) ==
    [i \in DOMAIN questions |-> [questions[i] EXCEPT !.id = "uuid_" \o ToString(i)]]

\* The objects dataAnalyzer and questionGenerator return hold a metadata and
\* no data.
NoData == None

\* The reducer of the data channel, called when an update holds data:
\* [...(current || []), ...update]
DataReducer(current, upd) ==
    IF upd.defined THEN current \o upd.items ELSE current

\* QuestionUpdate built from the channel's default and not from
\* state.metadata.
QuestionUpdate_fromDefault(md, questions) ==
    MD(<<>>, 0, "", Some(<<>>), Some(questions))

\* The update questionGenerator returns from its try block.
QuestionUpdate(md, questions) ==
    MD(md.fields, md.rowCount, md.summary, md.dataQualityIssues, Some(questions))

\* QuestionErrorUpdate that ignores state.metadata.
QuestionErrorUpdate_blank(md) ==
    MD(<<>>, 0, "Error generating questions", Some(<<>>), Some(<<>>))

\* The update questionGenerator returns from its catch block.
QuestionErrorUpdate(md) ==
    MD(IF md.present THEN md.fields ELSE <<>>,
       IF md.present THEN md.rowCount ELSE 0,
       IF md.present THEN md.summary ELSE "Error generating questions",
       IF md.present /\ md.dataQualityIssues.defined THEN md.dataQualityIssues ELSE Some(<<>>),
       Some(<<>>))

\* The update dataAnalyzer returns from its catch block.
AnalyzerErrorUpdate ==
    MD(<<>>, 0, "Error during analysis: model call failed", Some(<<"Analysis failed">>), None)

\* `${field}: ${meta.missingCount} missing values out of ${meta.totalCount}`
\* for the fields with missingCount > 0.
RECURSIVE DataQualityIssues(_)
DataQualityIssues(fields) ==
    IF fields = <<>> THEN <<>>
    ELSE LET e == fields[Len(fields)]
         IN  DataQualityIssues(SubSeq(fields, 1, Len(fields) - 1))
                \o (IF e.meta.missingCount > 0
                    THEN <<e.name \o ": " \o ToString(e.meta.missingCount)
                              \o " missing values out of " \o ToString(e.meta.totalCount)>>
                    ELSE <<>>)

\* The update dataAnalyzer returns from its try block.
AnalyzerUpdate(fields, rows, summary) ==
    MD(fields, Len(rows), summary, Some(DataQualityIssues(fields)), None)

\* ------------------------------------------------------------------ Init
AnalyzerIdle ==
    /\ aPc = "idle" /\ metadataFields = <<>> /\ descriptions = <<>> /\ aLog = <<>>

QuestionGeneratorAt(position) ==
    /\ qPc = position /\ llmResponse = NoResponse /\ currentMessages = <<>>
    /\ toolState = <<>> /\ qModelCalls = 0 /\ toolExecs = 0 /\ rounds = 0
    /\ history = <<>> /\ settled = <<>>

\* The values of the cells of a dataset handed to a graph run.
GraphVals == {Num(2), Str("x")}

\* analysisGraph.invoke({data}): a dataset of one or two columns.
GraphInit ==
    /\ entry = "graph"
    /\ data \in RowsOver(GraphVals \cup {Undefined, Absent}, GraphVals \cup {Absent}, MaxRows)
    /\ keys0 \in Orderings(PresentKeys(data))
    /\ pc = "START" /\ metadata = DefaultMetadata
    /\ analyzerRuns = 0 /\ qgRuns = 0 /\ update = NoMetadata /\ updateData = NoData
    /\ AnalyzerIdle /\ QuestionGeneratorAt("idle")

\* A metadata object with one profiled field.
SampleMetadata ==
    MD(<<[name |-> "a",
          meta |-> [FieldMetadataOf(inspectField(<<[f \in Fields |-> Num(2)]>>, "a", <<Num(2)>>))
                       EXCEPT !.description = "description"]]>>,
       1, "summary", Some(<<>>), None)

\* The state.metadata of a direct call of questionGenerator: none, the
\* channel's default, a profiled dataset, and one without dataQualityIssues,
\* which DatasetMetadata leaves optional.
NodeInputs ==
    {NoMetadata, DefaultMetadata, SampleMetadata,
     [SampleMetadata EXCEPT !.dataQualityIssues = None]}

\* questionGenerator(state), called on its own.
NodeInit ==
    /\ entry = "node"
    /\ data = <<>> /\ keys0 = <<>>
    /\ pc = "question_generator" /\ metadata \in NodeInputs
    /\ analyzerRuns = 0 /\ qgRuns = 1 /\ update = NoMetadata /\ updateData = NoData
    /\ AnalyzerIdle /\ QuestionGeneratorAt("start")

Init == GraphInit

\* A single column "a", handed to the first pass of dataAnalyzer.
ProfileInit ==
    /\ entry = "profile"
    /\ \E n \in 0 .. MaxColumnLen :
          \E col \in [1 .. n -> DefinedVals \cup {Undefined}] :
              /\ IF n <= MaxMixedLen THEN TRUE
                 ELSE IF TypeOf(FieldValues(ColumnRows(col), "a")) # "number" THEN TRUE
                 ELSE ConsistentCompare(FieldValues(ColumnRows(col), "a"))
              /\ data = ColumnRows(col)
    /\ keys0 \in Orderings(PresentKeys(data))
    /\ pc = "analyzer" /\ metadata = DefaultMetadata
    /\ analyzerRuns = 1 /\ qgRuns = 0 /\ update = NoMetadata /\ updateData = NoData
    /\ aPc = "start" /\ metadataFields = <<>> /\ descriptions = <<>> /\ aLog = <<>>
    /\ QuestionGeneratorAt("idle")

\* ------------------------------------------------------------ dataAnalyzer
DescribeCall(field) == [call |-> "describe", field |-> field, descs |-> <<>>]
SummaryCall(fields) ==
    [call |-> "summary", field |-> "",
     descs |-> [i \in DOMAIN fields |-> fields[i].meta.description]]

\* The first pass over dataFields, up to the first model call: the one for
\* the first field's description, or the summary's when there is no field.
A_FirstPass ==
    /\ pc = "analyzer" /\ aPc = "start"
    /\ \E mf \in FirstPassOutcomes(data, keys0) :
          /\ metadataFields' = mf
          /\ descriptions' = <<>>
          /\ IF keys0 = <<>>
             THEN aPc' = "summary" /\ aLog' = <<SummaryCall(<<>>)>>
             ELSE aPc' = "describe" /\ aLog' = <<DescribeCall(keys0[1])>>
    /\ UNCHANGED <<inputVars, pc, metadata, analyzerRuns, qgRuns, update, updateData, qVars>>

\* WithDescriptions that stores nothing.
WithDescriptions_notStored(fields, descs) == fields

\* metadataFields[field].description = description, for the descriptions
\* generateFieldDescriptions returned.
WithDescriptions(fields, descs) ==
    [i \in DOMAIN fields |->
        IF i \in DOMAIN descs
        THEN [fields[i] EXCEPT !.meta.description = descs[i]]
        ELSE fields[i]]

\* The model call for a field's description returns or throws.  After the
\* last field the descriptions are stored and the summary is asked for.
A_DescribeReturn ==
    /\ pc = "analyzer" /\ aPc = "describe"
    /\ \E outcome \in {"returns", "throws"} :
          IF outcome = "throws"
          THEN /\ aPc' = "caught"
               /\ update' = AnalyzerErrorUpdate
               /\ UNCHANGED <<metadataFields, descriptions, aLog>>
          ELSE LET field == keys0[Len(descriptions) + 1]
                   descs == Append(descriptions, "description of " \o field)
               IN  /\ descriptions' = descs
                   /\ update' = update
                   /\ IF Len(descs) < Len(keys0)
                      THEN /\ aPc' = "describe"
                           /\ aLog' = Append(aLog, DescribeCall(keys0[Len(descs) + 1]))
                           /\ metadataFields' = metadataFields
                      ELSE /\ aPc' = "summary"
                           /\ metadataFields' = WithDescriptions(metadataFields, descs)
                           /\ aLog' = Append(aLog,
                                  SummaryCall(WithDescriptions(metadataFields, descs)))
    /\ updateData' = NoData
    /\ UNCHANGED <<inputVars, pc, metadata, analyzerRuns, qgRuns, qVars>>

\* The model call for the dataset summary returns or throws; dataAnalyzer
\* returns its update.
A_SummaryReturn ==
    /\ pc = "analyzer" /\ aPc = "summary"
    /\ \E outcome \in {"returns", "throws"} :
          IF outcome = "throws"
          THEN aPc' = "caught" /\ update' = AnalyzerErrorUpdate
          ELSE /\ aPc' = "returned"
               /\ update' = AnalyzerUpdate(metadataFields, data, "summary of the dataset")
    /\ updateData' = NoData
    /\ UNCHANGED <<inputVars, pc, metadata, analyzerRuns, qgRuns, metadataFields,
                   descriptions, aLog, qVars>>

\* ------------------------------------------------------- questionGenerator
\* A counter or a log of the call moves when the call is tracked.
Track(track, old, new) == IF track THEN new ELSE old

\* Entry, up to the initial model call; without state.metadata the catch
\* block returns at once.
Q_Start(track) ==
    /\ pc = "question_generator" /\ qPc = "start"
    /\ IF ~metadata.present
       THEN /\ qPc' = "caught"
            /\ update' = QuestionErrorUpdate(metadata)
            /\ UNCHANGED <<currentMessages, qModelCalls>>
       ELSE /\ qPc' = "awaitModel"
            /\ currentMessages' = <<SystemMessage, HumanMessage>>
            /\ qModelCalls' = Track(track, qModelCalls, qModelCalls + 1)
            /\ update' = update
    /\ updateData' = NoData
    /\ UNCHANGED <<inputVars, pc, metadata, analyzerRuns, qgRuns, aVars, llmResponse,
                   toolState, toolExecs, rounds, history, settled>>

\* The model invocation throws: the catch block returns.
Q_ModelThrows ==
    /\ pc = "question_generator" /\ qPc = "awaitModel"
    /\ qPc' = "caught"
    /\ update' = QuestionErrorUpdate(metadata)
    /\ updateData' = NoData
    /\ UNCHANGED <<inputVars, pc, metadata, analyzerRuns, qgRuns, aVars, llmResponse,
                   currentMessages, toolState, qModelCalls, toolExecs, rounds, history, settled>>

\* The model invocation returns a response.  Without tool calls the loop
\* breaks; with tool calls every callTool of the response is started.
Q_ModelReturns(track, responses) ==
    /\ pc = "question_generator" /\ qPc = "awaitModel"
    /\ \E response \in responses :
          /\ (track /\ Len(response.tool_calls) > 0) => rounds < MaxRounds
          /\ llmResponse' = response
          /\ history' = Track(track, history, Append(history, response))
          /\ IF HasToolCalls(response)
             THEN /\ qPc' = "awaitTools"
                  /\ toolState' = [i \in DOMAIN response.tool_calls |-> "pending"]
                  /\ settled' = <<>>
                  /\ toolExecs' = Track(track, toolExecs, toolExecs +
                         Cardinality({i \in DOMAIN response.tool_calls :
                                         ToolCallAccepted(response.tool_calls[i])}))
             ELSE /\ qPc' = "parse"
                  /\ UNCHANGED <<toolState, toolExecs, settled>>
    /\ UNCHANGED <<inputVars, pc, metadata, analyzerRuns, qgRuns, update, updateData, aVars,
                   currentMessages, qModelCalls, rounds>>

\* One callTool promise settles, in any order; a rejection rejects
\* Promise.all and the catch block returns.
Q_ToolSettles ==
    /\ pc = "question_generator" /\ qPc = "awaitTools"
    /\ \E i \in DOMAIN toolState :
          /\ toolState[i] = "pending"
          /\ IF callTool(llmResponse.tool_calls[i]) = "resolved"
             THEN /\ toolState' = [toolState EXCEPT ![i] = "done"]
                  /\ settled' = Append(settled, i)
                  /\ UNCHANGED <<qPc, update>>
             ELSE /\ qPc' = "caught"
                  /\ update' = QuestionErrorUpdate(metadata)
                  /\ UNCHANGED <<toolState, settled>>
    /\ updateData' = NoData
    /\ UNCHANGED <<inputVars, pc, metadata, analyzerRuns, qgRuns, aVars, llmResponse,
                   currentMessages, qModelCalls, toolExecs, rounds, history>>

\* Promise.all resolves: the response and the tool results are appended and
\* the model is called again.
Q_ToolsDone(track) ==
    /\ pc = "question_generator" /\ qPc = "awaitTools"
    /\ \A i \in DOMAIN toolState : toolState[i] = "done"
    /\ currentMessages' = Track(track, currentMessages, addMessages(currentMessages, llmResponse))
    /\ rounds' = Track(track, rounds, rounds + 1)
    /\ qModelCalls' = Track(track, qModelCalls, qModelCalls + 1)
    /\ toolState' = <<>>
    /\ qPc' = "awaitModel"
    /\ UNCHANGED <<inputVars, pc, metadata, analyzerRuns, qgRuns, update, updateData, aVars,
                   llmResponse, toolExecs, history, settled>>

\* The final response is stripped of its code block and parsed; the update
\* is returned, from the try block or from the catch block.
Q_Parse ==
    /\ pc = "question_generator" /\ qPc = "parse"
    /\ LET content == stripMarkdownCodeBlock(llmResponse.content)
       IN  IF OutputParses(content)
           THEN /\ qPc' = "returned"
                /\ update' = QuestionUpdate(metadata, WithIds(content.questions))
           ELSE /\ qPc' = "caught"
                /\ update' = QuestionErrorUpdate(metadata)
    /\ updateData' = NoData
    /\ UNCHANGED <<inputVars, pc, metadata, analyzerRuns, qgRuns, aVars, llmResponse,
                   currentMessages, toolState, qModelCalls, toolExecs, rounds, history, settled>>

\* ------------------------------------------------------------- the graph
\* START -> analyzer
G_Start ==
    /\ pc = "START"
    /\ pc' = "analyzer"
    /\ analyzerRuns' = analyzerRuns + 1
    /\ aPc' = "start"
    /\ UNCHANGED <<inputVars, metadata, qgRuns, update, updateData, metadataFields, descriptions,
                   aLog, qVars>>

\* The metadata reducer takes the analyzer's update: parsed, it becomes
\* state.metadata and the edge analyzer -> question_generator is followed;
\* rejected, the run fails.
G_AnalyzerDone ==
    /\ pc = "analyzer" /\ aPc \in {"returned", "caught"}
    /\ entry = "graph"
    /\ IF DatasetMetadataSchema(update)
       THEN /\ metadata' = update
            /\ pc' = "question_generator"
            /\ qgRuns' = qgRuns + 1
            /\ qPc' = "start"
       ELSE /\ pc' = "failed"
            /\ UNCHANGED <<metadata, qgRuns, qPc>>
    /\ data' = DataReducer(data, updateData)
    /\ update' = NoMetadata /\ updateData' = NoData
    /\ UNCHANGED <<entry, keys0, analyzerRuns, aVars, llmResponse, currentMessages,
                   toolState, qModelCalls, toolExecs, rounds, history, settled>>

\* The metadata reducer takes the question generator's update; the edge
\* question_generator -> END is followed.
G_QuestionGeneratorDone ==
    /\ pc = "question_generator" /\ qPc \in {"returned", "caught"}
    /\ entry = "graph"
    /\ IF DatasetMetadataSchema(update)
       THEN metadata' = update /\ pc' = "END"
       ELSE metadata' = metadata /\ pc' = "failed"
    /\ data' = DataReducer(data, updateData)
    /\ update' = NoMetadata /\ updateData' = NoData
    /\ UNCHANGED <<entry, keys0, analyzerRuns, qgRuns, aVars, qVars>>

Next ==
    \/ G_Start
    \/ A_FirstPass
    \/ A_DescribeReturn
    \/ A_SummaryReturn
    \/ G_AnalyzerDone
    \/ Q_Start(TRUE)
    \/ Q_ModelThrows
    \/ Q_ModelReturns(TRUE, GraphResponses)
    \/ Q_ToolSettles
    \/ Q_ToolsDone(TRUE)
    \/ Q_Parse
    \/ G_QuestionGeneratorDone

Spec == Init /\ [][Next]_vars

\* A graph run in which every step that can be taken is taken in the end:
\* every model invocation and every tool execution comes back, and the model
\* stops asking for tools after MaxRounds rounds at the latest.
FairSpec == Init /\ [][Next]_vars /\ WF_vars(Next)

\* questionGenerator alone, against every answer of the model.
NodeNext ==
    \/ Q_Start(TRUE)
    \/ Q_ModelThrows
    \/ Q_ModelReturns(TRUE, Responses)
    \/ Q_ToolSettles
    \/ Q_ToolsDone(TRUE)
    \/ Q_Parse

NodeSpec == NodeInit /\ [][NodeNext]_vars

\* The profiler alone.
ProfileNext == A_FirstPass
ProfileSpec == ProfileInit /\ [][ProfileNext]_vars

\* questionGenerator alone, its control flow only: the counters and logs of
\* the call stand still, so that a loop that never ends is a cycle of states.
\* Every step that can be taken is taken in the end.
LoopNext ==
    \/ Q_Start(FALSE)
    \/ Q_ModelThrows
    \/ Q_ModelReturns(FALSE, Responses)
    \/ Q_ToolSettles
    \/ Q_ToolsDone(FALSE)
    \/ Q_Parse

LoopSpec == NodeInit /\ [][LoopNext]_vars /\ WF_vars(LoopNext)

\* ================================================================ claims
\* The rows in which field f has a defined value, and that value.
DefinedRows(f) == {j \in DOMAIN data : data[j][f].t \notin {"absent", "undefined"}}
AllNumbers(f) == \A j \in DefinedRows(f) : IsNumber(data[j][f])
\* The k-th row, from 1, in which f is defined.
KthDefinedRow(f, k) ==
    CHOOSE j \in DefinedRows(f) : Cardinality({j2 \in DefinedRows(f) : j2 <= j}) = k
Smaller(x, y) == IF x < y THEN x ELSE y

\* C5: for a field profiled as numeric whose defined values are all numbers,
\* range.min and range.max are the least and the greatest of the field's
\* defined values: both are the value of some row, no row is below min or
\* above max, and min <= max.
C5_RangeIsLeastAndGreatest ==
    \A i \in DOMAIN metadataFields :
        LET f == metadataFields[i].name
            r == metadataFields[i].meta.range
        IN  (metadataFields[i].meta.type = "number" /\ AllNumbers(f)) =>
                /\ r.hasMin /\ IsNumber(r.min) /\ IsNumber(r.max)
                /\ \E j \in DefinedRows(f) : data[j][f] = r.min
                /\ \E j \in DefinedRows(f) : data[j][f] = r.max
                /\ \A j \in DefinedRows(f) : r.min.n <= data[j][f].n /\ data[j][f].n <= r.max.n
                /\ r.min.n <= r.max.n

\* A numeric column with a missing value whose first value is not its least.
C5_Witness ==
    \E i \in DOMAIN metadataFields :
        LET f == metadataFields[i].name
            r == metadataFields[i].meta.range
        IN  /\ metadataFields[i].meta.type = "number" /\ AllNumbers(f)
            /\ Cardinality(DefinedRows(f)) >= 3 /\ Len(data) > Cardinality(DefinedRows(f))
            /\ data[1][f] = Num(2) /\ r.min = Num(-1) /\ r.max = Num(2)

RECURSIVE SumCounts(_)
SumCounts(table) ==
    IF table = <<>> THEN 0 ELSE table[1].count + SumCounts(Tail(table))

\* C7: for a non-numeric field, inspectField's frequency table has one entry
\* per distinct string form of the defined values, in the order of first
\* occurrence, each with the number of values of that form, the counts sum
\* to the number of defined values; range.uniqueValues lists those forms
\* without duplicates; the examples are the first min(5, n) defined values
\* in row order.
C7_FrequencyTable ==
    \A i \in DOMAIN metadataFields :
        LET f == metadataFields[i].name
            meta == metadataFields[i].meta
            n == Cardinality(DefinedRows(f))
            Forms == {String(data[j][f]) : j \in DefinedRows(f)}
            RowsOf(form) == {j \in DefinedRows(f) : String(data[j][f]) = form}
            FirstRow(form) == CHOOSE j \in RowsOf(form) : \A j2 \in RowsOf(form) : j <= j2
            table == inspectField(data, f, <<>>).uniqueValues.items
            names == meta.range.uniqueValues
        IN  meta.type # "number" =>
                /\ Len(table) = Cardinality(Forms)
                /\ {table[k].value : k \in DOMAIN table} = Forms
                /\ \A k, l \in DOMAIN table :
                      k < l => FirstRow(table[k].value) < FirstRow(table[l].value)
                /\ \A k \in DOMAIN table : table[k].count = Cardinality(RowsOf(table[k].value))
                /\ SumCounts(table) = n
                /\ names.defined
                /\ Len(names.items) = Cardinality(Forms)
                /\ \A k \in DOMAIN table : names.items[k] = table[k].value
                /\ Len(meta.examples) = Smaller(5, n)
                /\ \A k \in DOMAIN meta.examples : meta.examples[k] = data[KthDefinedRow(f, k)][f]
                /\ meta.totalCount = n

\* A column of strings and numbers, more than five of them, in which the
\* number 2 and the string "2" share one entry.
C7_Witness ==
    \E i \in DOMAIN metadataFields :
        LET f == metadataFields[i].name
            meta == metadataFields[i].meta
        IN  /\ meta.type = "string" /\ meta.totalCount >= 6
            /\ Len(meta.range.uniqueValues.items) = 2
            /\ Len(meta.examples) = 5
            /\ \E j \in DefinedRows(f) : data[j][f] = Num(2)
            /\ \E j \in DefinedRows(f) : data[j][f] = Str("x")

\* C8: when dataAnalyzer returns from its try block, every field of the first
\* row is profiled, rowCount is the number of input rows, and each field has
\* totalCount + missingCount = rowCount, totalCount the number of rows in
\* which its value is not undefined, and missingCount >= 0.
C8_CountsAddUp ==
    (pc = "analyzer" /\ aPc = "returned") =>
        /\ update.rowCount = Len(data)
        /\ Len(update.fields) = Len(keys0)
        /\ \A i \in DOMAIN update.fields :
              LET meta == update.fields[i].meta
              IN  /\ update.fields[i].name = keys0[i]
                  /\ meta.totalCount + meta.missingCount = update.rowCount
                  /\ meta.totalCount = Cardinality(DefinedRows(keys0[i]))
                  /\ meta.missingCount >= 0

\* A returned update with a field that is undefined in its first row and
\* defined in a later one, beside a field with no missing value.
C8_Witness ==
    /\ pc = "analyzer" /\ aPc = "returned" /\ Len(update.fields) = 2
    /\ data[1][keys0[1]] = Undefined
    /\ update.fields[1].meta.totalCount = 1 /\ update.fields[1].meta.missingCount = 1
    /\ update.fields[2].meta.missingCount = 0

\* C9: every update dataAnalyzer returns satisfies DatasetMetadataSchema, so
\* the metadata reducer never rejects it and no graph run fails.
C9_AnalyzerUpdateSatisfiesSchema ==
    /\ (pc = "analyzer" /\ aPc \in {"returned", "caught"}) => DatasetMetadataSchema(update)
    /\ pc # "failed"

\* C2: in every graph run the analyzer runs once, then the question generator
\* runs once, then the run ends: the question generator starts only after the
\* analyzer has returned, neither runs twice, and a run that is over has run
\* both.
C2_EachNodeRunsOnce ==
    /\ analyzerRuns <= 1 /\ qgRuns <= 1
    /\ qgRuns = 1 => (analyzerRuns = 1 /\ aPc \in {"returned", "caught"})
    /\ qPc # "idle" => qgRuns = 1
    /\ aPc # "idle" => analyzerRuns = 1
    /\ pc \in {"END", "failed"} => (analyzerRuns = 1 /\ qgRuns = 1)

\* The messages questionGenerator holds after feeding back the responses h.
RECURSIVE FedBack(_)
FedBack(h) ==
    IF h = <<>> THEN <<SystemMessage, HumanMessage>>
    ELSE LET last == h[Len(h)]
         IN  FedBack(SubSeq(h, 1, Len(h) - 1)) \o <<AIMessage(last)>>
                \o [i \in DOMAIN last.tool_calls |-> ToolMessage(last.tool_calls[i])]

\* C3: the loop goes on exactly while the latest response holds a tool call:
\* the response parsed as the final answer is the first one without tool
\* calls, every earlier response was fed back to the model with its tool
\* results, and after an initial response without tool calls no tool has run
\* and the model was invoked once.
C3_LoopRunsWhileToolCalls ==
    LET n == Len(history)
    IN  /\ qPc = "awaitTools" => Len(llmResponse.tool_calls) > 0
        /\ qPc \in {"parse", "returned"} =>
              /\ n >= 1 /\ llmResponse = history[n]
              /\ Len(history[n].tool_calls) = 0
              /\ \A k \in 1 .. (n - 1) : Len(history[k].tool_calls) > 0
              /\ currentMessages = FedBack(SubSeq(history, 1, n - 1))
              /\ qModelCalls = n /\ rounds = n - 1
              /\ n = 1 => (toolExecs = 0 /\ qModelCalls = 1)

\* A final answer parsed after two rounds, the first with two tool calls.
C3_Witness ==
    /\ qPc = "returned" /\ Len(history) = 3
    /\ Len(history[1].tool_calls) = 2 /\ Len(history[2].tool_calls) = 1
    /\ Len(update.questions.items) = 2

UndeclaredOrNoId(toolCall) ==
    toolCall.name \notin {"getGraphCatalog", "suggestGraphs"} \/ toolCall.id = ""

\* C4: only getGraphCatalog and suggestGraphs are ever answered with a tool
\* result; after a response with a tool call that names another tool, or
\* that has no id, the model is not invoked again and the update returned
\* has an empty questions list.
C4_OnlyDeclaredTools ==
    /\ \A m \in DOMAIN currentMessages :
          currentMessages[m].type = "tool" =>
              /\ currentMessages[m].name \in {"getGraphCatalog", "suggestGraphs"}
              /\ currentMessages[m].tool_call_id # ""
    /\ \A k \in DOMAIN history :
          (\E i \in DOMAIN history[k].tool_calls : UndeclaredOrNoId(history[k].tool_calls[i])) =>
              /\ k = Len(history) /\ qModelCalls = k
              /\ qPc \in {"awaitTools", "caught"}
              /\ qPc = "caught" => (update.present /\ update.questions = Some(<<>>))

\* In the second round a declared tool has answered before the call of an
\* undeclared one is rejected.
C4_Witness ==
    /\ qPc = "caught" /\ rounds = 1 /\ Len(history) = 2
    /\ Len(llmResponse.tool_calls) = 2
    /\ llmResponse.tool_calls[1].name = "suggestGraphs" /\ toolState[1] = "done"
    /\ llmResponse.tool_calls[2].name = "drawChart"

\* C10 as stated: whenever a step fails questionGenerator returns an update
\* with questions = [] whose fields, rowCount, summary and dataQualityIssues
\* are those of state.metadata; without state.metadata it returns fields {},
\* rowCount 0, summary 'Error generating questions', dataQualityIssues [],
\* having invoked neither the model nor a tool.
C10_ErrorUpdateKeepsInput ==
    /\ ~metadata.present => (qModelCalls = 0 /\ toolExecs = 0)
    /\ qPc = "caught" =>
          /\ update.present /\ update.questions = Some(<<>>)
          /\ IF metadata.present
             THEN /\ update.fields = metadata.fields
                  /\ update.rowCount = metadata.rowCount
                  /\ update.summary = metadata.summary
                  /\ update.dataQualityIssues = metadata.dataQualityIssues
             ELSE /\ update.fields = <<>> /\ update.rowCount = 0
                  /\ update.summary = "Error generating questions"
                  /\ update.dataQualityIssues = Some(<<>>)

\* C10, amended: as stated, except that a state.metadata without
\* dataQualityIssues is answered with dataQualityIssues [].
C10_ErrorUpdateKeepsInputOrEmptyIssues ==
    /\ ~metadata.present => (qModelCalls = 0 /\ toolExecs = 0)
    /\ qPc = "caught" =>
          /\ update.present /\ update.questions = Some(<<>>)
          /\ IF metadata.present
             THEN /\ update.fields = metadata.fields
                  /\ update.rowCount = metadata.rowCount
                  /\ update.summary = metadata.summary
                  /\ update.dataQualityIssues =
                        (IF metadata.dataQualityIssues.defined
                         THEN metadata.dataQualityIssues ELSE Some(<<>>))
             ELSE /\ update.fields = <<>> /\ update.rowCount = 0
                  /\ update.summary = "Error generating questions"
                  /\ update.dataQualityIssues = Some(<<>>)

\* After one round the final answer of a call on a profiled dataset does not
\* parse.
C10_Witness ==
    /\ qPc = "caught" /\ rounds = 1 /\ Len(history) = 2
    /\ Len(llmResponse.tool_calls) = 0
    /\ Len(metadata.fields) = 1 /\ update.fields = metadata.fields
    /\ ~metadata.dataQualityIssues.defined /\ update.dataQualityIssues = Some(<<>>)

QuestionGeneratorOver == qPc \in {"returned", "caught"}

\* C1 as stated: whatever the model answers, a questionGenerator call comes
\* to its end.
C1_CallAlwaysEnds == <>QuestionGeneratorOver

\* C1, amended: a questionGenerator call comes to its end unless the model
\* answers with tool calls again and again.
C1_CallEndsUnlessToolCallsForever ==
    <>QuestionGeneratorOver \/ []<>(qPc = "awaitTools" /\ Len(llmResponse.tool_calls) > 0)

\* A round is over: the tool results are fed back and the model is asked
\* again.
C1_Witness == qPc = "awaitModel" /\ Len(llmResponse.tool_calls) = 2

\* Everything of a metadata object but its questions.
AllButQuestions(md) ==
    <<md.present, md.fields, md.rowCount, md.summary, md.dataQualityIssues>>

\* C11: when questionGenerator returns from its try block, the fields,
\* rowCount, summary and dataQualityIssues of the metadata it returns are
\* those of state.metadata, the questions are set, and the object returned
\* holds no data; neither the call nor the reducers' step that follows it
\* changes state.data, and that step changes of state.metadata the questions
\* only.
C11_SuccessKeepsAllButQuestions ==
    [][/\ (qPc # "returned" /\ qPc' = "returned") =>
             /\ AllButQuestions(update') = AllButQuestions(metadata')
             /\ update'.questions.defined
             /\ updateData' = None
       /\ pc = "question_generator" => data' = data
       /\ (pc = "question_generator" /\ qPc = "returned") =>
             AllButQuestions(metadata') = AllButQuestions(metadata)]_vars

\* A run over two rows, one of them without a value, ends with one question
\* stored next to the analyzer's field and data quality issue.
C11_Witness ==
    /\ pc = "END" /\ qPc = "returned" /\ Len(data) = 2
    /\ Len(metadata.fields) >= 1 /\ Len(metadata.dataQualityIssues.items) >= 1
    /\ Len(metadata.questions.items) = 1

\* A question the final answer may not hold: its type is no key of the
\* catalog, or it lacks question, fields or description.
Unacceptable(q) == q.type \notin graphCatalog \/ ~q.complete

\* C12: throughout a graph run every question stored in metadata.questions
\* has a type that is a key of the graph catalog, of which there are 19; and
\* once a final answer that holds an unacceptable question has been handled,
\* the update returned, and the metadata stored from it, have questions = []:
\* no question of that answer is kept.
C12_QuestionsAllOrNothing ==
    /\ Cardinality(graphCatalog) = 19
    /\ \A i \in DOMAIN metadata.questions.items :
          metadata.questions.items[i].type \in graphCatalog
    /\ qPc \in {"returned", "caught"} /\ Len(llmResponse.tool_calls) = 0 /\ history # <<>>
          /\ (\E i \in DOMAIN llmResponse.content.questions :
                 Unacceptable(llmResponse.content.questions[i]))
       => /\ pc = "question_generator" => update.questions = Some(<<>>)
          /\ pc = "END" => metadata.questions = Some(<<>>)
          /\ pc \in {"question_generator", "END"}

\* After a round with a tool, a final answer with a histogram and a pie
\* question has been handled and the run is over.
C12_Witness ==
    /\ pc = "END" /\ qPc = "caught" /\ rounds = 1
    /\ Len(llmResponse.content.questions) = 2
    /\ llmResponse.content.questions[2].type = "pie"
    /\ metadata.questions = Some(<<>>) /\ Len(metadata.fields) >= 1

\* The number of tool calls in the responses h.
RECURSIVE ToolCallsIn(_)
ToolCallsIn(h) ==
    IF h = <<>> THEN 0
    ELSE ToolCallsIn(SubSeq(h, 1, Len(h) - 1)) + Len(h[Len(h)].tool_calls)

IsPrefix(s, t) == Len(s) <= Len(t) /\ SubSeq(t, 1, Len(s)) = s

\* C13: when a round of the loop is over, every tool call of the response
\* has been executed once, in whatever order the executions completed, and
\* the messages handed to the next model invocation are the messages there
\* were, then the response, then one tool result for each tool call of the
\* response, in the order of the tool calls; no step of the call removes or
\* reorders a message.
C13_ToolResultsInCallOrder ==
    [][/\ IsPrefix(currentMessages, currentMessages')
       /\ (qPc = "awaitTools" /\ qPc' = "awaitModel") =>
             LET calls == llmResponse.tool_calls
             IN  /\ Len(settled) = Len(calls)
                 /\ \A i \in DOMAIN calls : \E k \in DOMAIN settled : settled[k] = i
                 /\ toolExecs = ToolCallsIn(history)
                 /\ Len(currentMessages') = Len(currentMessages) + 1 + Len(calls)
                 /\ currentMessages'[Len(currentMessages) + 1] = AIMessage(llmResponse)
                 /\ \A i \in DOMAIN calls :
                       LET m == currentMessages'[Len(currentMessages) + 1 + i]
                       IN  /\ m.type = "tool"
                           /\ m.tool_call_id = calls[i].id
                           /\ m.name = calls[i].name]_vars

\* The second tool call of a response completed before the first, and the
\* model is asked again with the two results in the order of the calls.
C13_Witness ==
    /\ qPc = "awaitModel" /\ rounds = 1 /\ settled = <<2, 1>>
    /\ llmResponse.tool_calls[1].name = "getGraphCatalog"
    /\ llmResponse.tool_calls[2].name = "suggestGraphs"
    /\ Len(currentMessages) = 5
    /\ currentMessages[4].name = "getGraphCatalog"
    /\ currentMessages[5].name = "suggestGraphs"

\* C14: every graph run in which the model invocations come back and the
\* model stops asking for tools reaches END with metadata.questions defined.
C14_RunReachesEnd == <>(pc = "END" /\ metadata.questions.defined)

\* C15: dataAnalyzer has profiled every field before its first model call;
\* its k-th model call, for k up to the number of fields, asks for the
\* description of the k-th field and is made when the k - 1 descriptions
\* before it have come back; the call after those is the one for the
\* summary, made from the fields with their descriptions stored; a run that
\* returns from the try block has made (number of fields) + 1 model calls.
C15_DescribeEachFieldThenSummarise ==
    LET n == Len(keys0)
    IN  /\ aLog # <<>> =>
              /\ Len(metadataFields) = n
              /\ \A i \in 1 .. n : metadataFields[i].name = keys0[i]
        /\ Len(aLog) <= n + 1
        /\ \A k \in DOMAIN aLog :
              IF k <= n
              THEN aLog[k].call = "describe" /\ aLog[k].field = keys0[k]
              ELSE /\ aLog[k].call = "summary"
                   /\ Len(descriptions) = n
                   /\ aLog[k].descs = descriptions
                   /\ \A i \in 1 .. n :
                         /\ descriptions[i] = "description of " \o keys0[i]
                         /\ metadataFields[i].meta.description = descriptions[i]
        /\ aPc = "describe" => Len(aLog) = Len(descriptions) + 1
        /\ aPc = "returned" =>
              /\ Len(aLog) = n + 1
              /\ update.present => Len(update.fields) = n

\* A dataset of two fields has been analysed with three model calls.
C15_Witness ==
    /\ aPc = "returned" /\ Len(keys0) = 2 /\ Len(aLog) = 3
    /\ aLog[3].descs = <<"description of " \o keys0[1], "description of " \o keys0[2]>>

====
